---- MODULE Spec2Model ----
(***************************************************************************)
(* Model of src/src/expr.rs: the compact expression handle Expr<Name>, its *)
(* one-level view ExprContent<Name>, and the two conversions from_content  *)
(* and to_content.  Nodes (ExprDataInner behind an Rc) live in a heap that *)
(* only grows; a handle is two cached counts and the address of a node.    *)
(***************************************************************************)
EXTENDS Integers, Sequences, FiniteSets

\* ------------------------------------------------------------------ bounds
MaxNodes == 3        \* nodes from_content allocates for views of the caller's choice
MaxAgain == 1        \* further nodes, for views folded again (see AgainContents)
MaxCount == 1        \* largest free_vars / free_types supplied to Unit and Var
MaxNames == 1        \* longest list of binder names / type parameters / params
MaxTypeFree == 2     \* largest result of Type::free() among the input types

\* ------------------------------------------------------------------ inputs
VarUsage == {"Move", "Copy"}

Names == {"x", "y"}

\* Type<Name> is known to this file only through free(), clone and equality.
Type == [free : 0..MaxTypeFree]

free(t) == t.free

\* Vec<T> of length at most n.
Vec(S, n) == UNION {[1..k -> S] : k \in 0..n}

VARIABLES
    heap,       \* the nodes allocated so far: heap[a] is the ExprDataInner at address a
    made,       \* made[a]: the view from_content built node a from, and the handle it returned
    handles,    \* the handles the caller holds
    op,         \* the last call: "new" (none yet), "from_content" or "to_content"
    content,    \* the view of the last call: from_content's argument, to_content's result
    expr,       \* the handle of the last call: from_content's result, to_content's receiver
    panicked,   \* the last call failed an assertion
    refolded    \* the handle whose view (to_content's result) the last from_content took

vars == <<heap, made, handles, op, content, expr, panicked, refolded>>

\* ------------------------------------------------------------------ data
\* ExprData<Name>: an Rc to an ExprDataInner, here the address of a heap cell.
ExprData == 1..Len(heap)

\* Expr<Name>
Expr(fv, ft, d) == [free_vars |-> fv, free_types |-> ft, data |-> d]

NoExpr == Expr(0, 0, 0)

NoContent == [tag |-> "None"]

\* ------------------------------------------------------------------ from_content
\* Accepts without the loop over params of MakeExists.
Accepts_NoParamLoop(c) ==
    CASE c.tag = "Var" -> c.index < c.free_vars
      [] c.tag = "Abs" ->
            /\ free(c.arg_type) = c.body.free_types
            /\ Len(c.type_params) <= c.body.free_types
            /\ 1 <= c.body.free_vars
      [] c.tag = "Pair" ->
            /\ c.left.free_vars = c.right.free_vars
            /\ c.left.free_types = c.right.free_types
      [] c.tag = "Let" ->
            /\ Len(c.names) > 0
            /\ c.val.free_types = c.body.free_types
            /\ c.val.free_vars + Len(c.names) = c.body.free_vars
      [] c.tag = "LetExists" ->
            /\ Len(c.type_names) > 0
            /\ c.val.free_types + Len(c.type_names) = c.body.free_types
            /\ c.val.free_vars + 1 = c.body.free_vars
      [] c.tag = "MakeExists" ->
            /\ Len(c.params) > 0
            /\ c.body.free_types + Len(c.params) = free(c.type_body)
      [] OTHER -> TRUE

\* The assertions of from_content: TRUE when none of them fires.
Accepts(c) ==
    CASE c.tag = "Unit" -> TRUE
      [] c.tag = "Var" -> c.index < c.free_vars
      [] c.tag = "Abs" ->
            /\ free(c.arg_type) = c.body.free_types
            /\ Len(c.type_params) <= c.body.free_types
            /\ 1 <= c.body.free_vars
      [] c.tag = "App" -> TRUE
      [] c.tag = "Pair" ->
            /\ c.left.free_vars = c.right.free_vars
            /\ c.left.free_types = c.right.free_types
      [] c.tag = "Let" ->
            /\ Len(c.names) > 0
            /\ c.val.free_types = c.body.free_types
            /\ c.val.free_vars + Len(c.names) = c.body.free_vars
      [] c.tag = "LetExists" ->
            /\ Len(c.type_names) > 0
            /\ c.val.free_types + Len(c.type_names) = c.body.free_types
            /\ c.val.free_vars + 1 = c.body.free_vars
      [] c.tag = "MakeExists" ->
            /\ Len(c.params) > 0
            /\ c.body.free_types + Len(c.params) = free(c.type_body)
            /\ \A i \in 1..Len(c.params) : free(c.params[i][2]) = c.body.free_types

\* The ExprDataInner that from_content puts behind a new Rc.
Inner(c) ==
    CASE c.tag = "Unit" -> [tag |-> "Unit"]
      [] c.tag = "Var" -> [tag |-> "Var", usage |-> c.usage, index |-> c.index]
      [] c.tag = "Abs" ->
            [tag |-> "Abs", type_params |-> c.type_params, arg_name |-> c.arg_name,
             arg_type |-> c.arg_type, body |-> c.body.data]
      [] c.tag = "App" ->
            [tag |-> "App", callee |-> c.callee.data, type_params |-> c.type_params,
             arg |-> c.arg.data]
      [] c.tag = "Pair" -> [tag |-> "Pair", left |-> c.left.data, right |-> c.right.data]
      [] c.tag = "Let" ->
            [tag |-> "Let", names |-> c.names, val |-> c.val.data, body |-> c.body.data]
      [] c.tag = "LetExists" ->
            [tag |-> "LetExists", type_names |-> c.type_names, val_name |-> c.val_name,
             val |-> c.val.data, body |-> c.body.data]
      [] c.tag = "MakeExists" ->
            [tag |-> "MakeExists", params |-> c.params, type_body |-> c.type_body,
             body |-> c.body.data]

\* ResultFreeVars with Abs keeping the free_vars of its body.
ResultFreeVars_AbsKeeps(c) ==
    CASE c.tag \in {"Unit", "Var"} -> c.free_vars
      [] c.tag = "App" -> c.arg.free_vars
      [] c.tag = "Pair" -> c.left.free_vars
      [] c.tag \in {"Let", "LetExists"} -> c.val.free_vars
      [] c.tag \in {"Abs", "MakeExists"} -> c.body.free_vars

\* ResultFreeVars with App taking the free_vars of callee.
ResultFreeVars_Callee(c) ==
    CASE c.tag \in {"Unit", "Var"} -> c.free_vars
      [] c.tag = "Abs" -> c.body.free_vars - 1
      [] c.tag = "App" -> c.callee.free_vars
      [] c.tag = "Pair" -> c.left.free_vars
      [] c.tag \in {"Let", "LetExists"} -> c.val.free_vars
      [] c.tag = "MakeExists" -> c.body.free_vars

\* free_vars of the handle from_content returns.
ResultFreeVars(c) ==
    CASE c.tag \in {"Unit", "Var"} -> c.free_vars
      [] c.tag = "Abs" -> c.body.free_vars - 1
      [] c.tag = "App" -> c.arg.free_vars
      [] c.tag = "Pair" -> c.left.free_vars
      [] c.tag \in {"Let", "LetExists"} -> c.val.free_vars
      [] c.tag = "MakeExists" -> c.body.free_vars

\* ResultFreeTypes with LetExists taking the free_types of body, not of val.
ResultFreeTypes_OfBody(c) ==
    CASE c.tag \in {"Unit", "Var"} -> c.free_types
      [] c.tag = "Abs" -> c.body.free_types - Len(c.type_params)
      [] c.tag = "App" -> c.arg.free_types
      [] c.tag = "Pair" -> c.left.free_types
      [] c.tag = "Let" -> c.val.free_types
      [] c.tag \in {"LetExists", "MakeExists"} -> c.body.free_types

\* free_types of the handle from_content returns.
ResultFreeTypes(c) ==
    CASE c.tag \in {"Unit", "Var"} -> c.free_types
      [] c.tag = "Abs" -> c.body.free_types - Len(c.type_params)
      [] c.tag = "App" -> c.arg.free_types
      [] c.tag = "Pair" -> c.left.free_types
      [] c.tag \in {"Let", "LetExists"} -> c.val.free_types
      [] c.tag = "MakeExists" -> c.body.free_types

\* ------------------------------------------------------------------ to_content
\* to_content with the free_types of the body of Abs left unshifted.
to_content_AbsTypes(e) ==
    LET n == heap[e.data]
        fv == e.free_vars
        ft == e.free_types
    IN  CASE n.tag = "Unit" -> [tag |-> "Unit", free_vars |-> fv, free_types |-> ft]
          [] n.tag = "Var" ->
                [tag |-> "Var", usage |-> n.usage, free_vars |-> fv, free_types |-> ft,
                 index |-> n.index]
          [] n.tag = "Abs" ->
                [tag |-> "Abs", type_params |-> n.type_params, arg_name |-> n.arg_name,
                 arg_type |-> n.arg_type,
                 body |-> Expr(fv + 1, ft, n.body)]
          [] n.tag = "App" ->
                [tag |-> "App", callee |-> Expr(fv, ft, n.callee),
                 type_params |-> n.type_params, arg |-> Expr(fv, ft, n.arg)]
          [] n.tag = "Pair" ->
                [tag |-> "Pair", left |-> Expr(fv, ft, n.left),
                 right |-> Expr(fv, ft, n.right)]
          [] n.tag = "Let" ->
                [tag |-> "Let", names |-> n.names, val |-> Expr(fv, ft, n.val),
                 body |-> Expr(fv + Len(n.names), ft, n.body)]
          [] n.tag = "LetExists" ->
                [tag |-> "LetExists", type_names |-> n.type_names,
                 val_name |-> n.val_name, val |-> Expr(fv, ft, n.val),
                 body |-> Expr(fv + 1, ft + Len(n.type_names), n.body)]
          [] n.tag = "MakeExists" ->
                [tag |-> "MakeExists", params |-> n.params, type_body |-> n.type_body,
                 body |-> Expr(fv, ft, n.body)]

to_content(e) ==
    LET n == heap[e.data]
        fv == e.free_vars
        ft == e.free_types
    IN  CASE n.tag = "Unit" -> [tag |-> "Unit", free_vars |-> fv, free_types |-> ft]
          [] n.tag = "Var" ->
                [tag |-> "Var", usage |-> n.usage, free_vars |-> fv, free_types |-> ft,
                 index |-> n.index]
          [] n.tag = "Abs" ->
                [tag |-> "Abs", type_params |-> n.type_params, arg_name |-> n.arg_name,
                 arg_type |-> n.arg_type,
                 body |-> Expr(fv + 1, ft + Len(n.type_params), n.body)]
          [] n.tag = "App" ->
                [tag |-> "App", callee |-> Expr(fv, ft, n.callee),
                 type_params |-> n.type_params, arg |-> Expr(fv, ft, n.arg)]
          [] n.tag = "Pair" ->
                [tag |-> "Pair", left |-> Expr(fv, ft, n.left),
                 right |-> Expr(fv, ft, n.right)]
          [] n.tag = "Let" ->
                [tag |-> "Let", names |-> n.names, val |-> Expr(fv, ft, n.val),
                 body |-> Expr(fv + Len(n.names), ft, n.body)]
          [] n.tag = "LetExists" ->
                [tag |-> "LetExists", type_names |-> n.type_names,
                 val_name |-> n.val_name, val |-> Expr(fv, ft, n.val),
                 body |-> Expr(fv + 1, ft + Len(n.type_names), n.body)]
          [] n.tag = "MakeExists" ->
                [tag |-> "MakeExists", params |-> n.params, type_body |-> n.type_body,
                 body |-> Expr(fv, ft, n.body)]

\* The child handles embedded in a view.
Children(c) ==
    CASE c.tag \in {"Unit", "Var"} -> {}
      [] c.tag \in {"Abs", "MakeExists"} -> {c.body}
      [] c.tag = "App" -> {c.callee, c.arg}
      [] c.tag = "Pair" -> {c.left, c.right}
      [] c.tag \in {"Let", "LetExists"} -> {c.val, c.body}

\* ------------------------------------------------------------------ derived PartialEq
RECURSIVE DataEq(_, _)
\* DataEq as a comparison of the pointers.
DataEq_Ptr(a, b) == a = b

\* DataEq that leaves the binder names aside.
DataEq_Alpha(a, b) ==
    LET m == heap[a]
        n == heap[b]
    IN  /\ m.tag = n.tag
        /\ CASE m.tag = "Unit" -> TRUE
             [] m.tag = "Var" -> m.usage = n.usage /\ m.index = n.index
             [] m.tag = "Abs" ->
                   /\ m.type_params = n.type_params
                   /\ m.arg_type = n.arg_type
                   /\ DataEq(m.body, n.body)
             [] m.tag = "App" ->
                   /\ DataEq(m.callee, n.callee)
                   /\ m.type_params = n.type_params
                   /\ DataEq(m.arg, n.arg)
             [] m.tag = "Pair" -> DataEq(m.left, n.left) /\ DataEq(m.right, n.right)
             [] m.tag = "Let" ->
                   /\ Len(m.names) = Len(n.names)
                   /\ DataEq(m.val, n.val)
                   /\ DataEq(m.body, n.body)
             [] m.tag = "LetExists" ->
                   /\ Len(m.type_names) = Len(n.type_names)
                   /\ DataEq(m.val, n.val)
                   /\ DataEq(m.body, n.body)
             [] m.tag = "MakeExists" ->
                   /\ Len(m.params) = Len(n.params)
                   /\ \A i \in DOMAIN m.params : m.params[i][2] = n.params[i][2]
                   /\ m.type_body = n.type_body
                   /\ DataEq(m.body, n.body)

\* ExprData == ExprData: Rc compares the pointees, so this is a deep comparison.
DataEq(a, b) ==
    LET m == heap[a]
        n == heap[b]
    IN  /\ m.tag = n.tag
        /\ CASE m.tag = "Unit" -> TRUE
             [] m.tag = "Var" -> m.usage = n.usage /\ m.index = n.index
             [] m.tag = "Abs" ->
                   /\ m.type_params = n.type_params
                   /\ m.arg_name = n.arg_name
                   /\ m.arg_type = n.arg_type
                   /\ DataEq(m.body, n.body)
             [] m.tag = "App" ->
                   /\ DataEq(m.callee, n.callee)
                   /\ m.type_params = n.type_params
                   /\ DataEq(m.arg, n.arg)
             [] m.tag = "Pair" -> DataEq(m.left, n.left) /\ DataEq(m.right, n.right)
             [] m.tag = "Let" ->
                   /\ m.names = n.names
                   /\ DataEq(m.val, n.val)
                   /\ DataEq(m.body, n.body)
             [] m.tag = "LetExists" ->
                   /\ m.type_names = n.type_names
                   /\ m.val_name = n.val_name
                   /\ DataEq(m.val, n.val)
                   /\ DataEq(m.body, n.body)
             [] m.tag = "MakeExists" ->
                   /\ m.params = n.params
                   /\ m.type_body = n.type_body
                   /\ DataEq(m.body, n.body)

\* Expr == Expr
ExprEq(e, f) ==
    /\ e.free_vars = f.free_vars
    /\ e.free_types = f.free_types
    /\ DataEq(e.data, f.data)

\* ExprContent == ExprContent
ContentEq(c, d) ==
    /\ c.tag = d.tag
    /\ CASE c.tag = "Unit" -> c.free_vars = d.free_vars /\ c.free_types = d.free_types
         [] c.tag = "Var" ->
               /\ c.usage = d.usage
               /\ c.free_vars = d.free_vars
               /\ c.free_types = d.free_types
               /\ c.index = d.index
         [] c.tag = "Abs" ->
               /\ c.type_params = d.type_params
               /\ c.arg_name = d.arg_name
               /\ c.arg_type = d.arg_type
               /\ ExprEq(c.body, d.body)
         [] c.tag = "App" ->
               /\ ExprEq(c.callee, d.callee)
               /\ c.type_params = d.type_params
               /\ ExprEq(c.arg, d.arg)
         [] c.tag = "Pair" -> ExprEq(c.left, d.left) /\ ExprEq(c.right, d.right)
         [] c.tag = "Let" ->
               /\ c.names = d.names
               /\ ExprEq(c.val, d.val)
               /\ ExprEq(c.body, d.body)
         [] c.tag = "LetExists" ->
               /\ c.type_names = d.type_names
               /\ c.val_name = d.val_name
               /\ ExprEq(c.val, d.val)
               /\ ExprEq(c.body, d.body)
         [] c.tag = "MakeExists" ->
               /\ c.params = d.params
               /\ c.type_body = d.type_body
               /\ ExprEq(c.body, d.body)

\* ------------------------------------------------------------------ the views a caller can pass
\* A caller holds the handles it got from from_content or out of to_content.
UnitContents == [tag : {"Unit"}, free_vars : 0..MaxCount, free_types : 0..MaxCount]

VarContents ==
    [tag : {"Var"}, usage : VarUsage, free_vars : 0..MaxCount, free_types : 0..MaxCount,
     index : 0..MaxCount]

AbsContents ==
    [tag : {"Abs"}, type_params : Vec(Names, MaxNames), arg_name : Names,
     arg_type : Type, body : handles]

AppContents ==
    [tag : {"App"}, callee : handles, type_params : Vec(Type, MaxNames), arg : handles]

PairContents == [tag : {"Pair"}, left : handles, right : handles]

LetContents == [tag : {"Let"}, names : Vec(Names, MaxNames), val : handles, body : handles]

LetExistsContents ==
    [tag : {"LetExists"}, type_names : Vec(Names, MaxNames), val_name : Names,
     val : handles, body : handles]

MakeExistsContents ==
    [tag : {"MakeExists"}, params : Vec(Names \X Type, MaxNames), type_body : Type,
     body : handles]

\* The views that differ from d in the spelling of binder names at most.
Respell(d) ==
    CASE d.tag = "Abs" -> {[d EXCEPT !.arg_name = n] : n \in Names}
      [] d.tag = "Let" -> {[d EXCEPT !.names = ns] : ns \in [DOMAIN d.names -> Names]}
      [] d.tag = "LetExists" ->
            {[d EXCEPT !.type_names = ns, !.val_name = n] :
                ns \in [DOMAIN d.type_names -> Names], n \in Names}
      [] d.tag = "MakeExists" ->
            {[d EXCEPT !.params = [i \in DOMAIN d.params |-> <<ns[i], d.params[i][2]>>]] :
                ns \in [DOMAIN d.params -> Names]}
      [] OTHER -> {d}

\* The handles the caller holds that compare equal to e.
Alike(e) == {f \in handles : ExprEq(f, e)}

\* The views that compare equal to d once the binder names are left aside:
\* any spelling, any equal handles for the children.
Variants(d) ==
    CASE d.tag = "Abs" -> {[c EXCEPT !.body = b] : c \in Respell(d), b \in Alike(d.body)}
      [] d.tag = "App" ->
            {[d EXCEPT !.callee = f, !.arg = x] : f \in Alike(d.callee), x \in Alike(d.arg)}
      [] d.tag = "Pair" ->
            {[d EXCEPT !.left = l, !.right = r] : l \in Alike(d.left), r \in Alike(d.right)}
      [] d.tag \in {"Let", "LetExists"} ->
            {[c EXCEPT !.val = v, !.body = b] :
                c \in Respell(d), v \in Alike(d.val), b \in Alike(d.body)}
      [] d.tag = "MakeExists" ->
            {[c EXCEPT !.body = b] : c \in Respell(d), b \in Alike(d.body)}
      [] OTHER -> {d}

\* The views a caller folds again: the one to_content just returned, and the
\* variants of those it passed to from_content before.
AgainContents ==
    (IF op = "to_content" THEN {content} ELSE {})
        \cup UNION {Variants(made[a].content) : a \in DOMAIN made}

\* The run is bounded: MaxNodes nodes for views of any kind, then MaxAgain more
\* for views folded again, which end the run.
Room == ~panicked /\ Len(heap) < MaxNodes

RoomAgain == ~panicked /\ MaxNodes <= Len(heap) /\ Len(heap) < MaxNodes + MaxAgain

NoRefold == [expr |-> NoExpr, built |-> FALSE]

\* ------------------------------------------------------------------ actions
Init ==
    /\ heap = <<>>
    /\ made = <<>>
    /\ handles = {}
    /\ op = "new"
    /\ content = NoContent
    /\ expr = NoExpr
    /\ panicked = FALSE
    /\ refolded = NoRefold

\* Expr::from_content(c): a node is allocated and the handle to it returned, or
\* an assertion fails: nothing is built and the panic ends the run.
from_content(c) ==
    /\ op' = "from_content"
    /\ content' = c
    /\ refolded' = IF op = "to_content" /\ c = content
                   THEN [expr |-> expr, built |-> \E a \in DOMAIN made : made[a].expr = expr]
                   ELSE NoRefold
    /\ IF Accepts(c)
       THEN LET e == Expr(ResultFreeVars(c), ResultFreeTypes(c), Len(heap) + 1)
            IN  /\ heap' = Append(heap, Inner(c))
                /\ made' = Append(made, [content |-> c, expr |-> e])
                /\ handles' = handles \cup {e}
                /\ expr' = e
                /\ panicked' = FALSE
       ELSE /\ panicked' = TRUE
            /\ expr' = NoExpr
            /\ UNCHANGED <<heap, made, handles>>

FromUnit == Room /\ \E c \in UnitContents : from_content(c)

FromVar == Room /\ \E c \in VarContents : from_content(c)

FromAbs == Room /\ \E c \in AbsContents : from_content(c)

FromApp == Room /\ \E c \in AppContents : from_content(c)

FromPair == Room /\ \E c \in PairContents : from_content(c)

FromLet == Room /\ \E c \in LetContents : from_content(c)

FromLetExists == Room /\ \E c \in LetExistsContents : from_content(c)

FromMakeExists == Room /\ \E c \in MakeExistsContents : from_content(c)

FromAgain == RoomAgain /\ \E c \in AgainContents : from_content(c)

\* e.to_content() on a handle the caller holds; the caller then holds the
\* child handles of the view as well.
ToContent ==
    \E e \in handles :
        /\ ~panicked
        /\ Len(heap) <= MaxNodes
        /\ handles' = handles \cup Children(to_content(e))
        /\ op' = "to_content"
        /\ expr' = e
        /\ content' = to_content(e)
        /\ panicked' = FALSE
        /\ refolded' = NoRefold
        /\ UNCHANGED <<heap, made>>

Next ==
    \/ FromUnit
    \/ FromVar
    \/ FromAbs
    \/ FromApp
    \/ FromPair
    \/ FromLet
    \/ FromLetExists
    \/ FromMakeExists
    \/ FromAgain
    \/ ToContent

Spec == Init /\ [][Next]_vars

TypeOK ==
    /\ Len(heap) <= MaxNodes + MaxAgain
    /\ Len(made) = Len(heap)
    /\ \A e \in handles : e.data \in ExprData
    /\ op \in {"new", "from_content", "to_content"}
    /\ panicked \in BOOLEAN

\* ------------------------------------------------------------------ claims
\* The handles from_content returned.
Built == {made[a].expr : a \in DOMAIN made}

Folded == op = "from_content" /\ ~panicked

Exposed == op = "to_content"

\* C1: for every view v that from_content accepts, with child handles built by
\* from_content, to_content(from_content(v)) compares equal to v, the counts of
\* the child handles included.
C1_ViewRoundTrip ==
    (Folded /\ Children(content) \subseteq Built) => ContentEq(to_content(expr), content)

\* C2: for every handle h that from_content returned, from_content(to_content(h))
\* does not fail and returns a handle that compares equal to h.
C2_HandleRoundTrip ==
    (op = "from_content" /\ refolded.built) => (~panicked /\ ExprEq(expr, refolded.expr))

C2_Witness ==
    /\ Folded
    /\ refolded.built
    /\ content.tag = "LetExists"
    /\ expr.data # refolded.expr.data

\* C3: every Var view that to_content gives, for a handle from_content returned
\* or a child handle reached from one by to_content, has index < free_vars.
C3_ScopeSoundness ==
    (Exposed /\ content.tag = "Var") => content.index < content.free_vars

\* The preconditions of section 4.2, shape by shape: TRUE when one is violated.
Violated(c) ==
    \/ c.tag = "Var" /\ c.index >= c.free_vars
    \/ /\ c.tag = "Abs"
       /\ \/ free(c.arg_type) # c.body.free_types
          \/ Len(c.type_params) > c.body.free_types
          \/ c.body.free_vars = 0
    \/ /\ c.tag = "Pair"
       /\ \/ c.left.free_vars # c.right.free_vars
          \/ c.left.free_types # c.right.free_types
    \/ /\ c.tag = "Let"
       /\ \/ c.names = <<>>
          \/ c.val.free_types # c.body.free_types
          \/ c.val.free_vars + Len(c.names) # c.body.free_vars
    \/ /\ c.tag = "LetExists"
       /\ \/ c.type_names = <<>>
          \/ c.val.free_types + Len(c.type_names) # c.body.free_types
          \/ c.val.free_vars + 1 # c.body.free_vars
    \/ /\ c.tag = "MakeExists"
       /\ \/ c.params = <<>>
          \/ c.body.free_types + Len(c.params) # free(c.type_body)
          \/ \E i \in DOMAIN c.params : free(c.params[i][2]) # c.body.free_types

\* C4: from_content fails, and returns no handle, whenever a precondition of
\* the view's shape is violated.
C4_Rejection ==
    (op = "from_content" /\ Violated(content)) => (panicked /\ expr = NoExpr)

\* The last assertion of MakeExists is the one that fires.
C4_Witness ==
    /\ op = "from_content"
    /\ panicked
    /\ content.tag = "MakeExists"
    /\ content.params # <<>>
    /\ content.body.free_types + Len(content.params) = free(content.type_body)

\* C5: a handle from_content returns has the counts of the table: Unit and Var
\* as supplied; Abs body.free_vars - 1 and body.free_types - type_params.len();
\* Pair left's; Let and LetExists val's, which are the body's less the binders;
\* MakeExists body's.
C5_BinderArithmetic ==
    Folded =>
        LET c == content
            fv == expr.free_vars
            ft == expr.free_types
        IN  CASE c.tag \in {"Unit", "Var"} -> fv = c.free_vars /\ ft = c.free_types
              [] c.tag = "Abs" ->
                    /\ fv = c.body.free_vars - 1
                    /\ ft = c.body.free_types - Len(c.type_params)
              [] c.tag = "Pair" -> fv = c.left.free_vars /\ ft = c.left.free_types
              [] c.tag = "Let" ->
                    /\ fv = c.val.free_vars /\ ft = c.val.free_types
                    /\ fv = c.body.free_vars - Len(c.names)
              [] c.tag = "LetExists" ->
                    /\ fv = c.val.free_vars /\ ft = c.val.free_types
                    /\ fv = c.body.free_vars - 1
                    /\ ft = c.body.free_types - Len(c.type_names)
              [] c.tag = "MakeExists" -> fv = c.body.free_vars /\ ft = c.body.free_types
              [] OTHER -> TRUE

C5_Witness ==
    /\ Folded
    /\ content.tag = "Abs"
    /\ content.type_params # <<>>
    /\ heap[content.body.data].tag = "MakeExists"

\* The counts of a handle.
Counts(e) == <<e.free_vars, e.free_types>>

\* C6: to_content does not fail on any handle, and the child handles of its
\* view have the parent's counts (fv, ft) plus the binders crossed: Abs body
\* (fv + 1, ft + type_params.len()); App and Pair children (fv, ft); Let val
\* (fv, ft) and body (fv + names.len(), ft); LetExists val (fv, ft) and body
\* (fv + 1, ft + type_names.len()); MakeExists body (fv, ft); Unit and Var
\* report (fv, ft).
C6_ChildCounts ==
    Exposed =>
        LET c == content
            fv == expr.free_vars
            ft == expr.free_types
        IN  /\ ~panicked
            /\ c.tag = heap[expr.data].tag
            /\ CASE c.tag \in {"Unit", "Var"} -> Counts(c) = <<fv, ft>>
                 [] c.tag = "Abs" -> Counts(c.body) = <<fv + 1, ft + Len(c.type_params)>>
                 [] c.tag = "App" ->
                       Counts(c.callee) = <<fv, ft>> /\ Counts(c.arg) = <<fv, ft>>
                 [] c.tag = "Pair" ->
                       Counts(c.left) = <<fv, ft>> /\ Counts(c.right) = <<fv, ft>>
                 [] c.tag = "Let" ->
                       /\ Counts(c.val) = <<fv, ft>>
                       /\ Counts(c.body) = <<fv + Len(c.names), ft>>
                 [] c.tag = "LetExists" ->
                       /\ Counts(c.val) = <<fv, ft>>
                       /\ Counts(c.body) = <<fv + 1, ft + Len(c.type_names)>>
                 [] c.tag = "MakeExists" -> Counts(c.body) = <<fv, ft>>

\* to_content on a child handle (one no from_content call returned) whose node
\* is an Abs that binds type parameters.
C6_Witness ==
    /\ Exposed
    /\ content.tag = "Abs"
    /\ content.type_params # <<>>
    /\ expr \notin Built

\* C7: two calls of from_content on views that compare equal both succeed or
\* both fail; when they succeed, the two handles compare equal although their
\* nodes are two allocations.
C7_Deterministic ==
    /\ \A a, b \in DOMAIN made :
          ContentEq(made[a].content, made[b].content) =>
              ExprEq(made[a].expr, made[b].expr)
    /\ (op = "from_content" /\ panicked) =>
          \A a \in DOMAIN made : ~ContentEq(content, made[a].content)

\* Two equal views whose children are different allocations as well.
C7_Witness ==
    \E a, b \in DOMAIN made :
        /\ a # b
        /\ made[a].content.tag = "Abs"
        /\ ContentEq(made[a].content, made[b].content)
        /\ made[a].content.body.data # made[b].content.body.data

\* Two views that are the same but for the spelling of a binder name.
Respelled(c, d) == c # d /\ c \in Respell(d)

\* C8: two handles built from views that are the same but for a binder name
\* compare unequal, and their free_vars and free_types are equal.
C8_SpellingSensitive ==
    \A a, b \in DOMAIN made :
        Respelled(made[a].content, made[b].content) =>
            /\ ~ExprEq(made[a].expr, made[b].expr)
            /\ Counts(made[a].expr) = Counts(made[b].expr)

C8_Witness ==
    \E a, b \in DOMAIN made :
        /\ Respelled(made[a].content, made[b].content)
        /\ made[a].content.tag = "LetExists"
        /\ made[a].content.val_name = made[b].content.val_name

\* C9: from_content on an App view does not fail, whatever the counts of the
\* callee, and returns a handle with arg's counts; to_content then gives
\* callee and arg the counts of that handle.
C9_AppTakesArgCounts ==
    /\ (op = "from_content" /\ content.tag = "App") =>
          /\ ~panicked
          /\ Counts(expr) = Counts(content.arg)
          /\ Counts(to_content(expr).callee) = Counts(content.arg)
          /\ Counts(to_content(expr).arg) = Counts(content.arg)
    /\ (Exposed /\ content.tag = "App") =>
          Counts(content.callee) = Counts(expr) /\ Counts(content.arg) = Counts(expr)

C9_Witness ==
    /\ Folded
    /\ content.tag = "App"
    /\ Counts(content.callee) # Counts(content.arg)

\* C10: for every handle c reached from a handle from_content returned by any
\* chain of to_content, from_content(to_content(c)) succeeds and compares
\* equal to c.
C10_ClosedUnderDestructuring ==
    (op = "from_content" /\ refolded # NoRefold) =>
        (~panicked /\ ExprEq(expr, refolded.expr))

====
